---- MODULE Spec2Model ----
(***************************************************************************)
(* Model of electro_modelling:                                             *)
(*   datasets/techno_dataloader.py  techno_data_loader and the epochs of   *)
(*                                  the DataLoader it returns              *)
(*   models/discriminator.py        Discriminator.__init__,                *)
(*                                  make_disc_block and forward            *)
(*                                                                         *)
(* Real numbers are kept exact: a stored value is an integer number of     *)
(* hundredths (-376 is -3.76), a normalized value is the fraction          *)
(* [num, den] the division produces, a slope is a fraction <<num, den>>.   *)
(* Dataset indices are 0-based as in Python; tuples are 1-based, so        *)
(* channel c of an item is item[c + 1].                                    *)
(***************************************************************************)
EXTENDS Integers, Sequences, FiniteSets

VARIABLES
    lpc,         \* loader: "start", "ready", "iterating", "exhausted"
    tensors,     \* load_pickle(data_dir): index -> item (one value per channel)
    batch_size,  \* the batch_size argument
    order,       \* the sampler's index order of the current epoch
    pending,     \* batches of indices the batch sampler has not yielded yet
    batches,     \* batches delivered so far in the current epoch
    epochs,      \* number of epochs started
    dpc,         \* discriminator: "new", "constructed", "returned"
    img_chan,    \* Discriminator.__init__ argument
    hidden_dim,  \* Discriminator.__init__ argument
    model,       \* self.model
    x,           \* shape of the argument of forward
    predictions, \* self.model(x)
    output       \* what forward returned, or the error it raised

lvars == <<lpc, tensors, batch_size, order, pending, batches, epochs>>
dvars == <<dpc, img_chan, hidden_dim, model, x, predictions, output>>
vars == <<lpc, tensors, batch_size, order, pending, batches, epochs,
          dpc, img_chan, hidden_dim, model, x, predictions, output>>

(***************************************************************************)
(* Bounds                                                                  *)
(***************************************************************************)
MaxN == 3
MaxBatchSize == 3
MaxEpochs == 2
MaxBatch == 2
MaxChan == 2
MaxDim == 30

\* stored values, in hundredths: -3.76 and 6.29
Vals == {-376, 629}

\* an item of the pickled cache: one value for each of the two channels
Items == [1..2 -> Vals]

Min(a, b) == IF a < b THEN a ELSE b

RECURSIVE Prod(_)
Prod(s) == IF s = <<>> THEN 1 ELSE Head(s) * Prod(Tail(s))

(***************************************************************************)
(* techno_dataloader.py                                                    *)
(***************************************************************************)

\* transforms.Normalize(mean, std): out[c] = (in[c] - mean[c]) / std[c]
Normalize(mean, std, item) ==
    [c \in DOMAIN item |-> [num |-> item[c] - mean[c], den |-> std[c]]]

NormMean == <<-376, 0>>
NormStd == <<1005, 100>>

\* the statistics of channel 0 applied to both channels
transformOneChannel(item) == Normalize(<<-376, -376>>, <<1005, 1005>>, item)

\* transforms.Compose([transforms.Normalize((-3.76, 0), (10.05, 1))])
transform(item) == Normalize(NormMean, NormStd, item)

\* load_pickle(data_dir): the cached tensors, at least one item
load_pickle == UNION {[0..(n - 1) -> Items] : n \in 1..MaxN}

\* TechnoDatasetSpectrogram.__len__
DatasetLen(ts) == Cardinality(DOMAIN ts)

\* TechnoDatasetSpectrogram.__getitem__: the stored item, transformed
DatasetGetItem(ts, i) == transform(ts[i])

\* a sampler that draws with replacement
RandomSamplerReplacement(n) == [1..n -> 0..(n - 1)]

\* shuffle=True: RandomSampler without replacement, a fresh random
\* permutation of the indices at every __iter__
RandomSampler(n) ==
    {p \in [1..n -> 0..(n - 1)] : \A i, j \in 1..n : p[i] = p[j] => i = j}

\* a batch sampler with drop_last=True
RECURSIVE BatchSamplerDropLast(_, _)
BatchSamplerDropLast(idx, b) ==
    IF Len(idx) < b THEN <<>>
    ELSE <<SubSeq(idx, 1, b)>> \o BatchSamplerDropLast(SubSeq(idx, b + 1, Len(idx)), b)

\* BatchSampler(sampler, batch_size, drop_last=False): consecutive groups of
\* batch_size indices, the remainder kept as a last shorter batch
RECURSIVE BatchSampler(_, _)
BatchSampler(idx, b) ==
    IF Len(idx) = 0 THEN <<>>
    ELSE <<SubSeq(idx, 1, Min(b, Len(idx)))>>
         \o BatchSampler(SubSeq(idx, Min(b, Len(idx)) + 1, Len(idx)), b)

\* the fetcher: dataset[i] for every index of the batch, collated in order
Fetch(ts, indices) ==
    [k \in 1..Len(indices) |->
        [index |-> indices[k], data |-> DatasetGetItem(ts, indices[k])]]

LoaderIdle ==
    /\ lpc = "start"
    /\ tensors = <<>>
    /\ batch_size = 0
    /\ order = <<>>
    /\ pending = <<>>
    /\ batches = <<>>
    /\ epochs = 0

\* techno_data_loader(batch_size, data_dir)
techno_data_loader ==
    /\ lpc = "start"
    /\ \E b \in 1..MaxBatchSize, ts \in load_pickle :
        /\ tensors' = ts
        /\ batch_size' = b
    /\ lpc' = "ready"
    /\ UNCHANGED <<order, pending, batches, epochs, dvars>>

\* iter(train_loader): a new epoch
LoaderIter ==
    /\ lpc \in {"ready", "exhausted"}
    /\ epochs < MaxEpochs
    /\ \E p \in RandomSampler(DatasetLen(tensors)) :
        /\ order' = p
        /\ pending' = BatchSampler(p, batch_size)
    /\ batches' = <<>>
    /\ epochs' = epochs + 1
    /\ lpc' = "iterating"
    /\ UNCHANGED <<tensors, batch_size, dvars>>

\* next(iterator) with a batch left
LoaderNextBatch ==
    /\ lpc = "iterating"
    /\ pending # <<>>
    /\ batches' = Append(batches, Fetch(tensors, Head(pending)))
    /\ pending' = Tail(pending)
    /\ UNCHANGED <<lpc, tensors, batch_size, order, epochs, dvars>>

\* next(iterator) with no batch left: StopIteration, the epoch is over
LoaderStopIteration ==
    /\ lpc = "iterating"
    /\ pending = <<>>
    /\ lpc' = "exhausted"
    /\ UNCHANGED <<tensors, batch_size, order, pending, batches, epochs, dvars>>

LoaderNext ==
    \/ techno_data_loader
    \/ LoaderIter
    \/ LoaderNextBatch
    \/ LoaderStopIteration

(***************************************************************************)
(* discriminator.py                                                        *)
(***************************************************************************)

\* a tensor whose values are not followed: its shape, or the error raised
Tensor(shape) == [ok |-> TRUE, shape |-> shape]
Error(what) == [ok |-> FALSE, error |-> what]

Conv2d(in_channels, out_channels, kernel_size, stride) ==
    [kind |-> "Conv2d", in_channels |-> in_channels, out_channels |-> out_channels,
     kernel_size |-> kernel_size, stride |-> stride]

BatchNorm2d(num_features) == [kind |-> "BatchNorm2d", num_features |-> num_features]

LeakyReLU(negative_slope) == [kind |-> "LeakyReLU", negative_slope |-> negative_slope]

Sequential(layers) == [kind |-> "Sequential", layers |-> layers]

\* a block whose batch normalization is sized by the input channels
make_disc_block_bn_in(input_channels, output_channels, kernel_size, stride) ==
    Sequential(<<Conv2d(input_channels, output_channels, kernel_size, stride),
                 BatchNorm2d(input_channels),
                 LeakyReLU(<<2, 10>>)>>)

\* Discriminator.make_disc_block
make_disc_block(input_channels, output_channels, kernel_size, stride) ==
    Sequential(<<Conv2d(input_channels, output_channels, kernel_size, stride),
                 BatchNorm2d(output_channels),
                 LeakyReLU(<<2, 10>>)>>)

\* self.model as Discriminator.__init__ builds it
DiscriminatorModel(ic, hd) ==
    Sequential(<<make_disc_block(ic, hd, 4, 2),
                 make_disc_block(hd, hd * 2, 4, 2),
                 Conv2d(hd * 2, 1, 4, 2)>>)

\* an output size rounded up instead of down
ConvOutSizeCeil(s, kernel_size, stride) ==
    ((s - kernel_size + stride - 1) \div stride) + 1

\* output size of a convolution along one spatial dimension (no padding,
\* dilation 1)
ConvOutSize(s, kernel_size, stride) == ((s - kernel_size) \div stride) + 1

\* nn.Conv2d.forward on a tensor of the given shape: (C, H, W) or (N, C, H, W)
Conv2dForward(m, t) ==
    IF ~t.ok THEN t
    ELSE LET r == Len(t.shape) IN
        IF r \notin {3, 4} THEN Error("conv2d: expected 3D or 4D input")
        ELSE IF t.shape[r - 2] # m.in_channels THEN Error("conv2d: channels")
        ELSE IF t.shape[r - 1] < m.kernel_size \/ t.shape[r] < m.kernel_size
             THEN Error("conv2d: kernel size greater than input size")
        ELSE Tensor([i \in 1..r |->
                 IF i = r - 2 THEN m.out_channels
                 ELSE IF i >= r - 1 THEN ConvOutSize(t.shape[i], m.kernel_size, m.stride)
                 ELSE t.shape[i]])

\* nn.BatchNorm2d.forward of a module in training mode, as constructed
BatchNorm2dForward(m, t) ==
    IF ~t.ok THEN t
    ELSE IF Len(t.shape) # 4 THEN Error("batchnorm2d: expected 4D input")
    ELSE IF t.shape[2] # m.num_features THEN Error("batchnorm2d: num_features")
    ELSE IF t.shape[1] * t.shape[3] * t.shape[4] = 1
         THEN Error("batchnorm2d: expected more than 1 value per channel")
    ELSE t

\* nn.LeakyReLU.forward: elementwise
LeakyReLUForward(m, t) == t

\* nn.Sequential.forward: the modules applied in order
RECURSIVE ModuleForward(_, _)
RECURSIVE SequentialForward(_, _)
SequentialForward(layers, t) ==
    IF layers = <<>> THEN t
    ELSE SequentialForward(Tail(layers), ModuleForward(Head(layers), t))

ModuleForward(m, t) ==
    CASE m.kind = "Sequential" -> SequentialForward(m.layers, t)
      [] m.kind = "Conv2d" -> Conv2dForward(m, t)
      [] m.kind = "BatchNorm2d" -> BatchNorm2dForward(m, t)
      [] m.kind = "LeakyReLU" -> LeakyReLUForward(m, t)

\* the multi-index of flat position p (0-based) of a contiguous tensor
RECURSIVE Unravel(_, _)
Unravel(p, shape) ==
    IF shape = <<>> THEN <<>>
    ELSE <<p \div Prod(Tail(shape))>> \o Unravel(p % Prod(Tail(shape)), Tail(shape))

\* a contiguous (row-major) tensor; the value stored at a position is named
\* by its multi-index in this tensor
Contiguous(shape) ==
    [ok |-> TRUE, shape |-> shape,
     data |-> [p \in 1..Prod(shape) |-> Unravel(p - 1, shape)]]

\* predictions = self.model(x)
model_call(m, xshape) ==
    LET t == ModuleForward(m, Tensor(xshape)) IN
    IF t.ok THEN Contiguous(t.shape) ELSE t

\* t.view(-1, d0)
viewColumns(t, d0) ==
    IF Prod(t.shape) = 0 /\ d0 = 0 THEN Error("view: -1 is ambiguous")
    ELSE IF d0 = 0 \/ Prod(t.shape) % d0 # 0 THEN Error("view: invalid shape")
    ELSE [ok |-> TRUE, shape |-> <<Prod(t.shape) \div d0, d0>>, data |-> t.data]

\* t.view(d0, -1) of a contiguous tensor: the same storage under shape
\* (d0, numel / d0)
view(t, d0) ==
    IF Prod(t.shape) = 0 /\ d0 = 0 THEN Error("view: -1 is ambiguous")
    ELSE IF d0 = 0 \/ Prod(t.shape) % d0 # 0 THEN Error("view: invalid shape")
    ELSE [ok |-> TRUE, shape |-> <<d0, Prod(t.shape) \div d0>>, data |-> t.data]

\* element [i, j] of a 2-dimensional contiguous tensor
At2(t, i, j) == t.data[i * t.shape[2] + j + 1]

\* element [n, c, h, w] of a 4-dimensional contiguous tensor
At4(t, n, c, h, w) ==
    t.data[((n * t.shape[2] + c) * t.shape[3] + h) * t.shape[4] + w + 1]

\* the arguments forward is called with: a batch (N, C, H, W), a single image
\* (C, H, W), a single channel (H, W), and a flattened image (C * H * W)
ForwardInputs ==
    UNION {{<<n, c, h, w>>, <<c, h, w>>, <<h, w>>, <<c * h * w>>} :
           n \in 0..MaxBatch, c \in 1..MaxChan, h \in 1..MaxDim, w \in 1..MaxDim}

DiscIdle ==
    /\ dpc = "new"
    /\ img_chan = 0
    /\ hidden_dim = 0
    /\ model = <<>>
    /\ x = <<>>
    /\ predictions = <<>>
    /\ output = <<>>

\* Discriminator.__init__(img_chan, hidden_dim)
Discriminator_init ==
    /\ dpc = "new"
    /\ \E ic \in 1..MaxChan, hd \in 1..MaxChan :
        /\ img_chan' = ic
        /\ hidden_dim' = hd
        /\ model' = DiscriminatorModel(ic, hd)
    /\ dpc' = "constructed"
    /\ UNCHANGED <<x, predictions, output, lvars>>

\* Discriminator.forward(x); the model keeps nothing of a call that a later
\* call reads, so one call per behaviour is followed
forward ==
    /\ dpc = "constructed"
    /\ \E xs \in ForwardInputs :
        LET p == model_call(model, xs) IN
        /\ x' = xs
        /\ predictions' = p
        /\ output' = IF p.ok THEN view(p, p.shape[1]) ELSE p
    /\ dpc' = "returned"
    /\ UNCHANGED <<img_chan, hidden_dim, model, lvars>>

DiscNext ==
    \/ Discriminator_init
    \/ forward

(***************************************************************************)
(* Specifications                                                          *)
(***************************************************************************)
Init == LoaderIdle /\ DiscIdle

SpecLoader == Init /\ [][LoaderNext]_vars

SpecDisc == Init /\ [][DiscNext]_vars

(***************************************************************************)
(* Properties of the loader (SpecLoader)                                   *)
(***************************************************************************)

RECURSIVE Concat(_)
Concat(ss) == IF ss = <<>> THEN <<>> ELSE Head(ss) \o Concat(Tail(ss))

RECURSIVE SumLen(_)
SumLen(ss) == IF ss = <<>> THEN 0 ELSE Len(Head(ss)) + SumLen(Tail(ss))

\* the dataset indices in the order the current epoch delivered them
Delivered == LET d == Concat(batches) IN [k \in 1..Len(d) |-> d[k].index]

\* C1: within an epoch no dataset item is delivered twice, every delivered
\* item is an item of the dataset, and once the epoch is over every item has
\* been delivered exactly once, in the order the sampler drew: a permutation
\* of the dataset indices
C1_EachItemOncePerEpoch ==
    lpc \in {"iterating", "exhausted"} =>
        /\ \A j, k \in 1..Len(Delivered) : Delivered[j] = Delivered[k] => j = k
        /\ \A k \in 1..Len(Delivered) : Delivered[k] \in DOMAIN tensors
        /\ lpc = "exhausted" =>
            /\ Len(Delivered) = DatasetLen(tensors)
            /\ \A i \in DOMAIN tensors : \E k \in 1..Len(Delivered) : Delivered[k] = i
            /\ Delivered = order

\* an epoch is over and its order of delivery is not the stored order
C1_Witness ==
    /\ lpc = "exhausted"
    /\ DatasetLen(tensors) = 3
    /\ batch_size = 2
    /\ Delivered = <<2, 0, 1>>

\* C4: every delivered item, in every batch of every epoch, carries channel 0
\* as (v + 3.76) / 10.05 and channel 1 as the stored value itself, v being
\* the value stored in the cache for that item and channel
C4_FixedPerChannelNormalization ==
    \A b \in 1..Len(batches) : \A k \in 1..Len(batches[b]) :
        LET e == batches[b][k] IN
        /\ e.data[1].den # 0
        /\ e.data[1].num * 1005 = (tensors[e.index][1] + 376) * e.data[1].den
        /\ e.data[2].den # 0
        /\ e.data[2].num * 100 = tensors[e.index][2] * e.data[2].den

\* the second epoch delivers items whose channels hold different stored
\* values, among them one whose channel 1 is not zero
C4_Witness ==
    /\ epochs = 2
    /\ lpc = "exhausted"
    /\ Len(Delivered) = 3
    /\ \E i, j \in DOMAIN tensors : tensors[i][1] # tensors[j][1]
    /\ \E i \in DOMAIN tensors : tensors[i][1] # tensors[i][2]

\* C7: a finished epoch over n items with batch size b has delivered
\* ceil(n / b) batches, each of b items except the last, which holds n mod b
\* items when that is not zero, and the sizes sum to n
C7_BatchCountAndSizes ==
    lpc = "exhausted" =>
        LET n == DatasetLen(tensors)
            b == batch_size
            m == Len(batches)
        IN  /\ m = (n + b - 1) \div b
            /\ \A k \in 1..(m - 1) : Len(batches[k]) = b
            /\ Len(batches[m]) = IF n % b # 0 THEN n % b ELSE b
            /\ SumLen(batches) = n

\* an epoch that ended with an incomplete batch after a full one
C7_Witness ==
    /\ lpc = "exhausted"
    /\ DatasetLen(tensors) = 3
    /\ batch_size = 2
    /\ Len(batches) = 2
    /\ Len(batches[2]) = 1

(***************************************************************************)
(* Properties of the discriminator (SpecDisc)                              *)
(***************************************************************************)

\* the layers of a module in the order they are applied
RECURSIVE Layers(_)
RECURSIVE LayersOfAll(_)
LayersOfAll(ms) == IF ms = <<>> THEN <<>> ELSE Layers(Head(ms)) \o LayersOfAll(Tail(ms))

Layers(m) == IF m.kind = "Sequential" THEN LayersOfAll(m.layers) ELSE <<m>>

Kinds(ls) == [k \in 1..Len(ls) |-> ls[k].kind]

C3_ReturnsOneDimensional ==
    (dpc = "returned" /\ output.ok) => Len(output.shape) = 1

\* C5: self.model is two blocks (convolution, batch normalization, LeakyReLU
\* of slope 0.2, in that order) and a final convolution with nothing after
\* it; the channels chain img_chan -> hidden_dim -> 2 * hidden_dim -> 1, a
\* batch normalization has the channel count of the convolution before it
C5_DCGANTopology ==
    dpc # "new" =>
        LET ls == Layers(model) IN
        /\ model.kind = "Sequential"
        /\ Len(model.layers) = 3
        /\ \A k \in 1..2 :
            /\ model.layers[k].kind = "Sequential"
            /\ Kinds(model.layers[k].layers) = <<"Conv2d", "BatchNorm2d", "LeakyReLU">>
            /\ model.layers[k].layers[3].negative_slope[1] * 10
                 = 2 * model.layers[k].layers[3].negative_slope[2]
        /\ model.layers[3].kind = "Conv2d"
        /\ Kinds(ls) = <<"Conv2d", "BatchNorm2d", "LeakyReLU",
                         "Conv2d", "BatchNorm2d", "LeakyReLU", "Conv2d">>
        /\ <<ls[1].in_channels, ls[1].out_channels>> = <<img_chan, hidden_dim>>
        /\ <<ls[4].in_channels, ls[4].out_channels>> = <<hidden_dim, 2 * hidden_dim>>
        /\ <<ls[7].in_channels, ls[7].out_channels>> = <<2 * hidden_dim, 1>>
        /\ ls[2].num_features = ls[1].out_channels
        /\ ls[5].num_features = ls[4].out_channels
        /\ ls[4].in_channels = ls[2].num_features
        /\ ls[7].in_channels = ls[5].num_features

\* a model whose three channel counts differ
C5_Witness ==
    /\ dpc = "constructed"
    /\ img_chan = 1
    /\ hidden_dim = 2

\* C6: called with a flattened image, a 1-dimensional tensor, forward
\* produces its result
C6_AcceptsFlattenedImage ==
    (dpc = "returned" /\ Len(x) = 1) => output.ok

\* f(s) = floor((s - 4) / 2) + 1
f(s) == ((s - 4) \div 2) + 1

====
